---- MODULE Spec2Model ----
(***************************************************************************)
(* Model of lokalize.rag: the Bedrock retrieval client (query_engine.py),  *)
(* the scraper/chunker (web_scraper.py) and the orchestrator               *)
(* (rag/__init__.py).                                                      *)
(*                                                                         *)
(* Conventions                                                             *)
(*   - A Python str is a sequence of atoms; "" is << >>.                   *)
(*   - An Optional value is << >> for None and << v >> for a value v.      *)
(*   - Relevance scores and thresholds are hundredths (0.75 is 75).        *)
(*   - An exception is a record [type, wraps]; wraps = "none" when the     *)
(*     exception wraps no other exception.                                 *)
(***************************************************************************)
EXTENDS Integers, Sequences, FiniteSets, TLC

VARIABLES
    kb_id,          \* BedrockKnowledgeBase.knowledge_base_id (Optional[str])
    retrieval,      \* outcome of the last query_knowledge_base call
    agent_calls,    \* bedrock_agent.retrieve calls made by the last call
    pc,             \* position of the get_localization_advice call
    request,        \* the LocalizationRequest of the call (Optional)
    enhanced_query, \* enhanced_query (Optional[str])
    generation,     \* outcome of generate_culturally_aware_response
    context_docs,   \* the context_docs handed to the generation call
    response,       \* the LocalizationResponse returned (Optional)
    escaped,        \* the exception that left the orchestrator call (Optional)
    fault,          \* the exception raised inside the call's try block (Optional)
    call_log,       \* the endpoint calls of the call, in order
    scraper,        \* FashionCulturalScraper: "unbuilt", "built" or "rejected"
    chunk_size,     \* FashionCulturalScraper.chunk_size
    chunk_overlap,  \* FashionCulturalScraper.chunk_overlap
    cpc,            \* chunk_documents calls made: "idle", "chunked", "rechunked"
    documents,      \* argument of the last chunk_documents call
    chunked,        \* what the last chunk_documents call returned
    pages,          \* what the web answers for each URL of the last scrape
    scraped,        \* what the last scrape_urls call returned
    update_result   \* what update_knowledge_base returned (Optional)

retrieveVars == <<kb_id, retrieval, agent_calls>>

adviseVars == <<pc, request, enhanced_query, generation, context_docs, response,
                escaped, fault, call_log>>

chunkVars == <<scraper, chunk_size, chunk_overlap, cpc, documents, chunked>>

scrapeVars == <<pages, scraped, update_result>>

scraperVars == <<chunkVars, scrapeVars>>

vars == <<retrieveVars, adviseVars, chunkVars, scrapeVars>>

\* ------------------------------------------------------------------ bounds

MaxPassages == 5

\* ----------------------------------------------------------- Python values

None == << >>

Some(v) == << v >>

\* Python truthiness of an Optional[str]: None and "" are both falsy.
Truthy(opt) == opt # None /\ opt[1] # << >>

Exc(t) == [type |-> t, wraps |-> "none"]

\* ---------------------------------------------- before any call is made

NoCall == [status |-> "none", threshold |-> 0, reply |-> << >>,
           results |-> << >>, total_results |-> 0, exc |-> Exc("none"),
           endpoint |-> "none", endpoint_exc |-> Exc("none")]

RetrieveIdle ==
    /\ retrieval = NoCall
    /\ agent_calls = 0

AdviseIdle ==
    /\ pc = "idle"
    /\ request = None
    /\ enhanced_query = None
    /\ generation = [status |-> "none", text |-> None, exc |-> Exc("none")]
    /\ context_docs = << >>
    /\ response = None
    /\ escaped = None
    /\ fault = None
    /\ call_log = << >>

\* No scraper built yet; 0 stands for the attributes not being set.
ChunkIdle ==
    /\ scraper = "unbuilt"
    /\ chunk_size = 0
    /\ chunk_overlap = 0
    /\ cpc = "idle"
    /\ documents = << >>
    /\ chunked = << >>
    /\ pages = << >>
    /\ scraped = << >>
    /\ update_result = None

\* ------------------------------------------------ retrieval client adapter

KbIds == {None, Some(<< >>), Some(<<"kb-1">>)}

Scores == {30, 50, 75, 80, 90}

Thresholds == {0, 70, 75}

\* A retrievalResults element: its position in the endpoint's reply stands
\* for its content; 'score' is optional in the reply.
ScoreOpts == {None} \cup {Some(s) : s \in Scores}

Reply(f, k) == [i \in 1..k |-> [idx |-> i, score |-> f[i]]]

\* Failures of bedrock_agent.retrieve (botocore ClientError, transport).
TransportFailures == {Exc("ClientError"), Exc("EndpointConnectionError")}

\* result.get('score', 0)
ScoreOf(result) == IF result.score = None THEN 0 ELSE result.score[1]

\* query_engine.py:77  score >= confidence_threshold
KeepsLt(score, threshold) == score > threshold

Keeps(score, threshold) == score >= threshold

\* query_engine.py:74-78, the filter loop from position i on.
RECURSIVE FilterFrom(_, _, _, _)
FilterFrom(results, threshold, i, filtered) ==
    IF i > Len(results) THEN filtered
    ELSE FilterFrom(results, threshold, i + 1,
                    IF Keeps(ScoreOf(results[i]), threshold)
                    THEN Append(filtered, results[i])
                    ELSE filtered)

FilterResults(results, threshold) == FilterFrom(results, threshold, 1, << >>)

\* The exception query_knowledge_base lets escape when the endpoint raised e
\* (query_engine.py:89-94: logged, then a bare 'raise').
ReraiseWrapped(e) == [type |-> "UpstreamError", wraps |-> e.type]

Reraise(e) == e

\* query_engine.py:56-57
MissingKbError(id) == Exc("ValueError")

\* query_knowledge_base(query, max_results, confidence_threshold), where the
\* endpoint either raises e or answers with reply.
QkbOutcome(id, threshold, endpoint, e, reply) ==
    IF ~Truthy(id)
    THEN [NoCall EXCEPT !.status = "raised", !.threshold = threshold,
                        !.exc = MissingKbError(id)]
    ELSE IF endpoint = "raises"
    THEN [NoCall EXCEPT !.status = "raised", !.threshold = threshold,
                        !.endpoint = "raises", !.endpoint_exc = e,
                        !.exc = Reraise(e)]
    ELSE LET filtered_results == FilterResults(reply, threshold)
         IN  [NoCall EXCEPT !.status = "returned", !.threshold = threshold,
                            !.endpoint = "answers", !.reply = reply,
                            !.results = filtered_results,
                            !.total_results = Len(filtered_results)]

QkbAgentCalls(id) == IF Truthy(id) THEN 1 ELSE 0

InitRetrieve ==
    /\ kb_id \in KbIds
    /\ RetrieveIdle
    /\ AdviseIdle
    /\ ChunkIdle

\* Outcomes of one bedrock_agent.retrieve call: it raises e, or answers with
\* the k results whose scores are f[1], ..., f[k].
RetrieveRaises(e) == [kind |-> "raises", exc |-> e, reply |-> << >>]

RetrieveAnswers(f, k) == [kind |-> "answers", exc |-> Exc("none"), reply |-> Reply(f, k)]

\* query_knowledge_base(query, max_results, threshold) when the endpoint does out.
QueryWith(threshold, out) ==
    retrieval' = QkbOutcome(kb_id, threshold, out.kind, out.exc, out.reply)

\* A direct call of query_knowledge_base on a client built with kb_id; the
\* endpoint is consulted only when the call reaches it.
QueryKnowledgeBase ==
    /\ retrieval.status = "none"
    /\ \E threshold \in Thresholds :
          IF ~Truthy(kb_id)
          THEN QueryWith(threshold, RetrieveRaises(Exc("none")))
          ELSE \/ \E e \in TransportFailures : QueryWith(threshold, RetrieveRaises(e))
               \/ \E k \in 0..MaxPassages : \E f \in [1..k -> ScoreOpts] :
                     QueryWith(threshold, RetrieveAnswers(f, k))
    /\ agent_calls' = QkbAgentCalls(kb_id)
    /\ UNCHANGED <<kb_id, adviseVars, scraperVars>>

NextRetrieve == QueryKnowledgeBase

SpecRetrieve == InitRetrieve /\ [][NextRetrieve]_vars

\* ------------------------------------------------------- scraper / chunker

MaxChunkSize == 3

MaxTextLen == 3

MaxDocs == 2

\* Page text is made of a letter, a space and a newline.
Alphabet == {"a", " ", "\n"}

Whitespace == {" ", "\n"}

TextsOfLen(n) == [1..n -> Alphabet]

\* A list element is a Document with page_content and metadata, or
\* (valid = FALSE) an object that is no Document and has no page_content.
Doc(text, meta) == [valid |-> TRUE, page_content |-> text, metadata |-> meta]

Malformed == [valid |-> FALSE, page_content |-> << >>, metadata |-> "none"]

Metadatas == {"u1", "u2"}

RECURSIVE DocListsOf(_, _)
\* The document lists of k documents whose texts total at most n characters.
DocListsOf(k, n) ==
    IF k = 0 THEN {<< >>}
    ELSE UNION {
            {<<d>> \o rest : d \in {Doc(t, m) : t \in TextsOfLen(len), m \in Metadatas}
                                   \cup (IF len = 0 THEN {Malformed} ELSE {}),
                             rest \in DocListsOf(k - 1, n - len)}
            : len \in 0..n}

DocLists == UNION {DocListsOf(k, MaxTextLen) : k \in 0..MaxDocs}

\* TextSplitter.__init__, called at web_scraper.py:18-22: the library raises
\* a ValueError when chunk_overlap is larger than chunk_size.
SplitterRejects(size, overlap) == overlap > size

\* RecursiveCharacterTextSplitter's default separators "\n\n", "\n", " ", "".
Separators == << <<"\n", "\n">>, <<"\n">>, <<" ">>, << >> >>

RECURSIVE LStrip(_)
LStrip(t) ==
    IF t = << >> THEN << >>
    ELSE IF t[1] \in Whitespace THEN LStrip(Tail(t)) ELSE t

RECURSIVE RStrip(_)
RStrip(t) ==
    IF t = << >> THEN << >>
    ELSE IF t[Len(t)] \in Whitespace THEN RStrip(SubSeq(t, 1, Len(t) - 1)) ELSE t

\* str.strip()
StripKeep(t) == t

Strip(t) == RStrip(LStrip(t))

\* re.search(separator, text) for a non-empty literal separator
Found(text, sep) ==
    \E i \in 0..(Len(text) - Len(sep)) : SubSeq(text, i + 1, i + Len(sep)) = sep

RECURSIVE PickSeparator(_, _, _)
\* _split_text: the first separator that is "" or occurs in the text, and the
\* separators after it.
PickSeparator(text, seps, i) ==
    IF i > Len(seps)
    THEN [separator |-> seps[Len(seps)], new_separators |-> << >>]
    ELSE IF seps[i] = << >>
    THEN [separator |-> << >>, new_separators |-> << >>]
    ELSE IF Found(text, seps[i])
    THEN [separator |-> seps[i], new_separators |-> SubSeq(seps, i + 1, Len(seps))]
    ELSE PickSeparator(text, seps, i + 1)

RECURSIVE SplitScan(_, _, _, _, _)
\* re.split("(sep)", text) with each separator glued to the front of the piece
\* that follows it (keep_separator=True), scanning from position i.
SplitScan(text, sep, i, cur, acc) ==
    IF i > Len(text) THEN Append(acc, cur)
    ELSE IF i + Len(sep) - 1 <= Len(text) /\ SubSeq(text, i, i + Len(sep) - 1) = sep
    THEN SplitScan(text, sep, i + Len(sep), sep, Append(acc, cur))
    ELSE SplitScan(text, sep, i + 1, Append(cur, text[i]), acc)

NonEmpty(pieces) == SelectSeq(pieces, LAMBDA x : x # << >>)

\* _split_text_with_regex(text, separator, keep_separator=True)
SplitWithRegex(text, sep) ==
    IF sep = << >>
    THEN NonEmpty([i \in 1..Len(text) |-> <<text[i]>>])
    ELSE NonEmpty(SplitScan(text, sep, 1, << >>, << >>))

RECURSIVE Concat(_)
\* "".join(pieces)
Concat(pieces) ==
    IF pieces = << >> THEN << >> ELSE pieces[1] \o Concat(Tail(pieces))

\* _join_docs with separator "": the joined, stripped text, or nothing when
\* that text is empty.
JoinDocs(current_doc) ==
    LET text == Strip(Concat(current_doc))
    IN  IF text = << >> THEN << >> ELSE <<text>>

RECURSIVE Shrink(_, _, _, _, _)
\* _merge_splits, the while loop that drops pieces from the front of
\* current_doc until what is left fits the overlap and the next piece.
Shrink(current_doc, total, len, size, overlap) ==
    IF total > overlap \/ (total + len > size /\ total > 0)
    THEN Shrink(Tail(current_doc), total - Len(current_doc[1]), len, size, overlap)
    ELSE [current_doc |-> current_doc, total |-> total]

RECURSIVE MergeFrom(_, _, _, _, _, _, _)
\* _merge_splits(splits, "") from piece i on.
MergeFrom(splits, i, docs, current_doc, total, size, overlap) ==
    IF i > Len(splits) THEN docs \o JoinDocs(current_doc)
    ELSE LET d == splits[i]
             len == Len(d)
         IN  IF total + len > size /\ current_doc # << >>
             THEN LET kept == Shrink(current_doc, total, len, size, overlap)
                  IN  MergeFrom(splits, i + 1, docs \o JoinDocs(current_doc),
                                Append(kept.current_doc, d), kept.total + len,
                                size, overlap)
             ELSE MergeFrom(splits, i + 1, docs, Append(current_doc, d),
                            total + len, size, overlap)

MergeSplits(splits, size, overlap) ==
    MergeFrom(splits, 1, << >>, << >>, 0, size, overlap)

RECURSIVE SplitTextWith(_, _, _, _)
RECURSIVE ProcessSplits(_, _, _, _, _, _, _)
\* _split_text, the loop over the pieces from piece i on: pieces shorter than
\* chunk_size are collected and merged, a longer piece is split again with
\* the finer separators, or emitted as it is when there are none.
ProcessSplits(splits, i, good, final, new_separators, size, overlap) ==
    LET merged == IF good # << >> THEN MergeSplits(good, size, overlap) ELSE << >>
    IN  IF i > Len(splits) THEN final \o merged
        ELSE IF Len(splits[i]) < size
        THEN ProcessSplits(splits, i + 1, Append(good, splits[i]), final,
                           new_separators, size, overlap)
        ELSE IF new_separators = << >>
        THEN ProcessSplits(splits, i + 1, << >>, Append(final \o merged, splits[i]),
                           new_separators, size, overlap)
        ELSE ProcessSplits(splits, i + 1, << >>,
                           final \o merged
                           \o SplitTextWith(splits[i], new_separators, size, overlap),
                           new_separators, size, overlap)

\* RecursiveCharacterTextSplitter._split_text(text, separators)
SplitTextWith(text, separators, size, overlap) ==
    LET pick == PickSeparator(text, separators, 1)
    IN  ProcessSplits(SplitWithRegex(text, pick.separator), 1, << >>, << >>,
                      pick.new_separators, size, overlap)

\* split_text(text)
SplitText(text, size, overlap) == SplitTextWith(text, Separators, size, overlap)

RECURSIVE CreateDocuments(_, _, _, _)
\* create_documents: every chunk of document i becomes a Document carrying a
\* copy of document i's metadata, document after document.
CreateDocuments(docs, i, size, overlap) ==
    IF i > Len(docs) THEN << >>
    ELSE LET chunks == SplitText(docs[i].page_content, size, overlap)
         IN  [j \in 1..Len(chunks) |-> Doc(chunks[j], docs[i].metadata)]
             \o CreateDocuments(docs, i + 1, size, overlap)

\* text_splitter.split_documents raises when an element has no page_content.
SplitRaises(docs) == \E i \in 1..Len(docs) : ~docs[i].valid

\* chunk_documents: what the except branch returns (web_scraper.py:57-59).
Fallback(docs) == docs

\* chunk_documents (web_scraper.py:53-59)
ChunkDocumentsOrInput(docs, size, overlap) ==
    IF SplitRaises(docs) \/ CreateDocuments(docs, 1, size, overlap) = << >>
    THEN Fallback(docs)
    ELSE CreateDocuments(docs, 1, size, overlap)

ChunkDocumentsOf(docs, size, overlap) ==
    IF SplitRaises(docs) THEN Fallback(docs)
    ELSE CreateDocuments(docs, 1, size, overlap)

MaxUrls == 3

UrlNames == <<"u1", "u2", "u3", "u4">>

PageTexts == {<< >>, <<" ">>, <<"a">>, <<" ", "a">>}

\* What the web answers for one URL: the page's text, or a failed request.
PageOutcomes ==
    {[ok |-> FALSE, text |-> << >>]} \cup {[ok |-> TRUE, text |-> t] : t \in PageTexts}

PageLists == UNION {[1..k -> PageOutcomes] : k \in 0..MaxUrls}

RECURSIVE LoadFrom(_, _, _)
\* WebBaseLoader(urls).load(): the URLs are requested one after the other and
\* a failed request raises out of load().
LoadFrom(answers, i, loaded) ==
    IF i > Len(answers) THEN [raised |-> FALSE, docs |-> loaded]
    ELSE IF ~answers[i].ok THEN [raised |-> TRUE, docs |-> loaded]
    ELSE LoadFrom(answers, i + 1, Append(loaded, Doc(answers[i].text, UrlNames[i])))

\* scrape_urls (web_scraper.py:34-41)
ScrapeUrlsOf(answers) ==
    LET load == LoadFrom(answers, 1, << >>)
    IN  IF load.raised THEN << >> ELSE load.docs

\* scrape_and_chunk (web_scraper.py:71-75)
ScrapeAndChunkOf(answers, size, overlap) ==
    LET docs == ScrapeUrlsOf(answers)
    IN  IF docs = << >> THEN << >> ELSE ChunkDocumentsOf(docs, size, overlap)

InitChunk ==
    /\ kb_id = None
    /\ RetrieveIdle
    /\ AdviseIdle
    /\ ChunkIdle

\* FashionCulturalScraper(chunk_size, chunk_overlap)
BuildScraper ==
    /\ scraper = "unbuilt"
    /\ \E size \in 1..MaxChunkSize, overlap \in 0..MaxChunkSize :
          /\ chunk_size' = size
          /\ chunk_overlap' = overlap
          /\ scraper' = IF SplitterRejects(size, overlap) THEN "rejected" ELSE "built"
    /\ UNCHANGED <<retrieveVars, adviseVars, scrapeVars, cpc, documents, chunked>>

\* chunk_documents(documents)
ChunkDocuments ==
    /\ scraper = "built"
    /\ cpc = "idle"
    /\ \E docs \in DocLists :
          /\ documents' = docs
          /\ chunked' = ChunkDocumentsOf(docs, chunk_size, chunk_overlap)
    /\ cpc' = "chunked"
    /\ UNCHANGED <<retrieveVars, adviseVars, scrapeVars, scraper, chunk_size,
                   chunk_overlap>>

\* chunk_documents called again, on what it returned.
RechunkDocuments ==
    /\ scraper = "built"
    /\ cpc = "chunked"
    /\ documents' = chunked
    /\ chunked' = ChunkDocumentsOf(chunked, chunk_size, chunk_overlap)
    /\ cpc' = "rechunked"
    /\ UNCHANGED <<retrieveVars, adviseVars, scrapeVars, scraper, chunk_size,
                   chunk_overlap>>

\* scrape_urls(urls)
ScrapeUrls ==
    /\ scraper = "built"
    /\ cpc = "idle"
    /\ \E answers \in PageLists :
          /\ pages' = answers
          /\ scraped' = ScrapeUrlsOf(answers)
    /\ cpc' = "scraped"
    /\ UNCHANGED <<retrieveVars, adviseVars, scraper, chunk_size, chunk_overlap,
                   documents, chunked, update_result>>

\* scrape_and_chunk(urls)
ScrapeAndChunk ==
    /\ scraper = "built"
    /\ cpc = "idle"
    /\ \E answers \in PageLists :
          /\ pages' = answers
          /\ scraped' = ScrapeUrlsOf(answers)
          /\ documents' = ScrapeUrlsOf(answers)
          /\ chunked' = ScrapeAndChunkOf(answers, chunk_size, chunk_overlap)
    /\ cpc' = "scraped_and_chunked"
    /\ UNCHANGED <<retrieveVars, adviseVars, scraper, chunk_size, chunk_overlap,
                   update_result>>

NextChunk ==
    \/ BuildScraper
    \/ ChunkDocuments
    \/ RechunkDocuments
    \/ ScrapeUrls
    \/ ScrapeAndChunk

SpecChunk == InitChunk /\ [][NextChunk]_vars

\* ----------------------------------------------- generation client adapter

\* Failures of bedrock_runtime.invoke_model.
GenerationFailures == {Exc("ClientError")}

\* Generated texts, as characters.
TextNone == << >>

TextOk == <<"o", "k">>

TextCulturalCap == <<"C", "u", "l", "t", "u", "r", "a", "l">>

TextCulture == <<"c", "u", "l", "t", "u", "r", "e">>

TextRecommendUp == <<"R", "E", "C", "O", "M", "M", "E", "N", "D">>

TextBoth == <<"r", "e", "c", "o", "m", "m", "e", "n", "d", " ",
              "c", "u", "l", "t", "u", "r", "a", "l">>

GeneratedTexts == {TextNone, TextOk, TextCulturalCap, TextCulture,
                   TextRecommendUp, TextBoth}

\* The JSON body of an invoke_model reply: the 'content' key may be absent,
\* its list may be empty, and the first block's 'text' may be absent, null
\* or a string.
Block(kind, text) == [text_kind |-> kind, text |-> text]

Envelopes ==
    {[content_kind |-> "missing", content |-> << >>],
     [content_kind |-> "list", content |-> << >>],
     [content_kind |-> "list", content |-> <<Block("missing", << >>)>>],
     [content_kind |-> "list", content |-> <<Block("null", << >>)>>]}
    \cup {[content_kind |-> "list", content |-> <<Block("str", t)>>]
          : t \in GeneratedTexts}

GenerateOutcomes ==
    {[kind |-> "raises", exc |-> e, body |-> [content_kind |-> "missing", content |-> << >>]]
        : e \in GenerationFailures}
    \cup {[kind |-> "answers", exc |-> Exc("none"), body |-> b] : b \in Envelopes}

\* query_engine.py:161  response_body.get('content', [{}])[0].get('text', '')
ExtractText(body) ==
    IF body.content_kind = "missing"
    THEN [status |-> "returned", text |-> Some(<< >>), exc |-> Exc("none")]
    ELSE IF body.content = << >>
    THEN [status |-> "raised", text |-> None, exc |-> Exc("IndexError")]
    ELSE IF body.content[1].text_kind = "missing"
    THEN [status |-> "returned", text |-> Some(<< >>), exc |-> Exc("none")]
    ELSE IF body.content[1].text_kind = "null"
    THEN [status |-> "returned", text |-> None, exc |-> Exc("none")]
    ELSE [status |-> "returned", text |-> Some(body.content[1].text),
          exc |-> Exc("none")]

\* generate_culturally_aware_response: the outcome when invoke_model raises
\* out.exc or answers with out.body (query_engine.py:140-168).
GenerateOutcome(out) ==
    IF out.kind = "raises"
    THEN [status |-> "raised", text |-> None, exc |-> out.exc]
    ELSE ExtractText(out.body)

\* ------------------------------------------------------------ orchestrator

DefaultThreshold == 70

DefaultMaxResults == 5

ConfidencePlaceholder == 80

AdviseScores == {50, 70, 90}

Queries == {<< >>, <<"Q">>}

Regions == {<<"Saudi Arabia">>, <<"Japan">>}

Requests ==
    [query : Queries,
     target_region : Regions,
     brand_context : {None, Some(<< >>), Some(<<"B">>)},
     product_type : {None, Some(<<"P">>)},
     campaign_type : {None, Some(<<"C">>)}]

RECURSIVE Join(_, _)
\* sep.join(parts)
Join(parts, sep) ==
    IF parts = << >> THEN << >>
    ELSE IF Len(parts) = 1 THEN parts[1]
    ELSE parts[1] \o sep \o Join(Tail(parts), sep)

Delimiter == <<" | ">>

\* 'if request.<field>:' appends the labeled segment (__init__.py:152-159).
OptionalPartAlways(label, field) ==
    IF field # None THEN << <<label>> \o field[1] >> ELSE << >>

OptionalPart(label, field) ==
    IF Truthy(field) THEN << <<label>> \o field[1] >> ELSE << >>

\* __init__.py:150-161
EnhancedParts(req) ==
    << req.query >>
    \o OptionalPart("Brand context: ", req.brand_context)
    \o OptionalPart("Product type: ", req.product_type)
    \o OptionalPart("Campaign type: ", req.campaign_type)
    \o << <<"Target region: ">> \o req.target_region >>

\* _enhance_query
EnhanceQuery(req) == Join(EnhancedParts(req), Delimiter)

\* str.lower(), on the characters the generated texts use.
LowerChar(c) ==
    CASE c = "C" -> "c" [] c = "R" -> "r" [] c = "E" -> "e" [] c = "O" -> "o"
      [] c = "M" -> "m" [] c = "N" -> "n" [] c = "D" -> "d" [] OTHER -> c

LowerKeep(text) == text

Lower(text) == [i \in 1..Len(text) |-> LowerChar(text[i])]

\* pattern in text
Contains(text, pattern) ==
    \E i \in 0..(Len(text) - Len(pattern)) :
        SubSeq(text, i + 1, i + Len(pattern)) = pattern

KwCultural == <<"c", "u", "l", "t", "u", "r", "a", "l">>

KwRecommend == <<"r", "e", "c", "o", "m", "m", "e", "n", "d">>

Response(req, advice, insights, recs, sources, confidence) ==
    [query |-> req.query, target_region |-> req.target_region,
     advice |-> advice, cultural_insights |-> insights,
     recommendations |-> recs, sources_used |-> sources,
     confidence_score |-> confidence]

\* __init__.py:113-121
NotConfiguredResponse(req) ==
    Response(req,
             <<"Knowledge Base not configured. Please provide Knowledge Base ID.">>,
             << >>, << >>, 0, 0)

\* __init__.py:138-146
ErrorResponseKeepsConfidence(req, e) ==
    Response(req, <<"Error generating advice: ", e.type>>, << >>, << >>, 0,
             ConfidencePlaceholder)

ErrorResponse(req, e) ==
    Response(req, <<"Error generating advice: ", e.type>>, << >>, << >>, 0, 0)

\* _parse_response on a generated_response that is a str (__init__.py:167-187)
ParseResponse(req, advice, num_docs_used) ==
    Response(req, advice,
             IF Contains(Lower(advice), KwCultural)
             THEN <<"Cultural considerations identified in response">>
             ELSE << >>,
             IF Contains(Lower(advice), KwRecommend)
             THEN <<"Specific recommendations provided">>
             ELSE << >>,
             num_docs_used, ConfidencePlaceholder)

\* 'except Exception' (__init__.py:136): every injected fault is an Exception.
Catches(e) == TRUE

\* The call ends because e was raised inside the try block.
Raise(e) ==
    /\ fault' = Some(e)
    /\ pc' = "returned"
    /\ IF Catches(e)
       THEN response' = Some(ErrorResponse(request[1], e)) /\ escaped' = None
       ELSE response' = None /\ escaped' = Some(e)

InitAdvise ==
    /\ kb_id \in KbIds
    /\ RetrieveIdle
    /\ AdviseIdle
    /\ ChunkIdle

\* get_localization_advice is entered (__init__.py:112-121).
GetLocalizationAdvice ==
    /\ pc = "idle"
    /\ \E req \in Requests :
          /\ request' = Some(req)
          /\ IF ~Truthy(kb_id)
             THEN pc' = "returned" /\ response' = Some(NotConfiguredResponse(req))
             ELSE pc' = "enhance" /\ UNCHANGED response
    /\ UNCHANGED <<retrieveVars, scraperVars, enhanced_query, generation, context_docs,
                   escaped, fault, call_log>>

\* enhanced_query = self._enhance_query(request), or a fault injected there.
EnhanceStep ==
    /\ pc = "enhance"
    /\ \/ /\ enhanced_query' = Some(EnhanceQuery(request[1]))
          /\ pc' = "retrieve"
          /\ UNCHANGED <<response, escaped, fault>>
       \/ /\ Raise(Exc("InjectedFault"))
          /\ UNCHANGED enhanced_query
    /\ UNCHANGED <<retrieveVars, scraperVars, request, generation, context_docs,
                   call_log>>

\* query_and_generate, step 1, when the retrieval endpoint does out: the
\* outcome of query_knowledge_base(query, max_results), re-raised if it raised.
RetrieveWithAnyway(out) ==
    LET r == QkbOutcome(kb_id, DefaultThreshold, out.kind, out.exc, out.reply)
    IN  /\ retrieval' = r
        /\ pc' = "generate"
        /\ UNCHANGED <<response, escaped, fault>>

RetrieveWith(out) ==
    LET r == QkbOutcome(kb_id, DefaultThreshold, out.kind, out.exc, out.reply)
    IN  /\ retrieval' = r
        /\ IF r.status = "raised"
           THEN Raise(r.exc)
           ELSE pc' = "generate" /\ UNCHANGED <<response, escaped, fault>>

\* retrieval_results = self.query_knowledge_base(query, max_results)
RetrieveStep ==
    /\ pc = "retrieve"
    /\ \/ \E e \in TransportFailures : RetrieveWith(RetrieveRaises(e))
       \/ \E k \in 0..DefaultMaxResults :
             \E f \in [1..k -> {Some(s) : s \in AdviseScores}] :
                RetrieveWith(RetrieveAnswers(f, k))
    /\ agent_calls' = QkbAgentCalls(kb_id)
    /\ call_log' = IF QkbAgentCalls(kb_id) = 1
                   THEN Append(call_log, "retrieve") ELSE call_log
    /\ UNCHANGED <<kb_id, scraperVars, request, enhanced_query, generation,
                   context_docs>>

\* query_and_generate, step 2: generate_culturally_aware_response.
GenerateStep ==
    /\ pc = "generate"
    /\ \E out \in GenerateOutcomes :
          LET g == GenerateOutcome(out)
          IN  /\ generation' = g
              /\ context_docs' = retrieval.results
              /\ call_log' = Append(call_log, "generate")
              /\ IF g.status = "raised"
                 THEN Raise(g.exc)
                 ELSE pc' = "parse" /\ UNCHANGED <<response, escaped, fault>>
    /\ UNCHANGED <<retrieveVars, scraperVars, request, enhanced_query>>

\* return self._parse_response(request, result): advice.lower() raises an
\* AttributeError when generated_response is not a str.
ParseStepCountsReply ==
    /\ pc = "parse"
    /\ IF generation.text = None
       THEN Raise(Exc("AttributeError"))
       ELSE /\ response' = Some(ParseResponse(request[1], generation.text[1],
                                              Len(retrieval.reply)))
            /\ pc' = "returned"
            /\ UNCHANGED <<escaped, fault>>
    /\ UNCHANGED <<retrieveVars, scraperVars, request, enhanced_query, generation,
                   context_docs, call_log>>

ParseStep ==
    /\ pc = "parse"
    /\ IF generation.text = None
       THEN Raise(Exc("AttributeError"))
       ELSE /\ response' = Some(ParseResponse(request[1], generation.text[1],
                                              Len(retrieval.results)))
            /\ pc' = "returned"
            /\ UNCHANGED <<escaped, fault>>
    /\ UNCHANGED <<retrieveVars, scraperVars, request, enhanced_query, generation,
                   context_docs, call_log>>

NextAdvise ==
    \/ GetLocalizationAdvice
    \/ EnhanceStep
    \/ RetrieveStep
    \/ GenerateStep
    \/ ParseStep

SpecAdvise == InitAdvise /\ [][NextAdvise]_vars

RagChunkSize == 800

RagChunkOverlap == 100

\* update_knowledge_base, given what self.scraper.scrape_and_chunk(urls) did:
\* it raised e (raised = TRUE) or returned docs (__init__.py:79-100).
UpdateResultNoEmptyCheck(raised, e, docs, n_urls) ==
    IF raised THEN [status |-> "error", message |-> <<e.type>>]
    ELSE [status |-> "success", documents_scraped |-> Len(docs),
          urls_processed |-> n_urls, documents |-> docs,
          message |-> <<"Documents ready for Knowledge Base upload">>]

UpdateResultOf(raised, e, docs, n_urls) ==
    IF raised THEN [status |-> "error", message |-> <<e.type>>]
    ELSE IF docs = << >>
    THEN [status |-> "failed", message |-> <<"No documents scraped">>]
    ELSE [status |-> "success", documents_scraped |-> Len(docs),
          urls_processed |-> n_urls, documents |-> docs,
          message |-> <<"Documents ready for Knowledge Base upload">>]

\* FashionLocalizationRAG.__init__ builds its scraper with chunk_size=800 and
\* chunk_overlap=100, with or without a knowledge-base id.
InitUpdate ==
    /\ kb_id \in KbIds
    /\ RetrieveIdle
    /\ AdviseIdle
    /\ scraper = (IF SplitterRejects(RagChunkSize, RagChunkOverlap)
                  THEN "rejected" ELSE "built")
    /\ chunk_size = RagChunkSize
    /\ chunk_overlap = RagChunkOverlap
    /\ cpc = "idle"
    /\ documents = << >>
    /\ chunked = << >>
    /\ pages = << >>
    /\ scraped = << >>
    /\ update_result = None

\* update_knowledge_base(urls); the scrape_and_chunk call either runs on what
\* the web answers, or a fault is injected into it.
UpdateKnowledgeBase ==
    /\ scraper = "built"
    /\ cpc = "idle"
    /\ \E answers \in PageLists, injected \in BOOLEAN :
          LET e == Exc("InjectedFault")
              docs == IF injected THEN << >>
                      ELSE ScrapeAndChunkOf(answers, chunk_size, chunk_overlap)
          IN  /\ pages' = answers
              /\ scraped' = IF injected THEN << >> ELSE ScrapeUrlsOf(answers)
              /\ documents' = scraped'
              /\ chunked' = docs
              /\ fault' = IF injected THEN Some(e) ELSE None
              /\ IF injected /\ ~Catches(e)
                 THEN update_result' = None /\ escaped' = Some(e)
                 ELSE /\ update_result' =
                            Some(UpdateResultOf(injected, e, docs, Len(answers)))
                      /\ escaped' = None
    /\ cpc' = "updated"
    /\ UNCHANGED <<retrieveVars, pc, request, enhanced_query, generation,
                   context_docs, response, call_log, scraper, chunk_size,
                   chunk_overlap>>

NextUpdate == UpdateKnowledgeBase

SpecUpdate == InitUpdate /\ [][NextUpdate]_vars

\* ------------------------------------------------------------------ claims

ReplyScores(results) == [i \in 1..Len(results) |-> ScoreOf(results[i])]

\* C2: query_knowledge_base returns exactly the passages of the endpoint's
\* reply whose score is >= the threshold (a score equal to the threshold is
\* kept), each unchanged and in the reply's relative order; scores
\* [0.9, 0.5, 0.8, 0.3, 0.75] with threshold 0.7 yield [0.9, 0.8, 0.75].
C2_ThresholdFilterExact ==
    retrieval.status = "returned" =>
        LET reply == retrieval.reply
            res == retrieval.results
            thr == retrieval.threshold
        IN  /\ \A j \in 1..Len(res) :
                  /\ res[j].idx \in 1..Len(reply)
                  /\ res[j] = reply[res[j].idx]
                  /\ ScoreOf(res[j]) >= thr
            /\ \A j, k \in 1..Len(res) : j < k => res[j].idx < res[k].idx
            /\ \A i \in 1..Len(reply) :
                  ScoreOf(reply[i]) >= thr => \E j \in 1..Len(res) : res[j].idx = i
            /\ retrieval.total_results = Len(res)
            /\ (ReplyScores(reply) = <<90, 50, 80, 30, 75>> /\ thr = 70)
                  => ReplyScores(res) = <<90, 80, 75>>

C2_Witness ==
    /\ retrieval.status = "returned"
    /\ retrieval.threshold = 70
    /\ ReplyScores(retrieval.reply) = <<90, 50, 80, 30, 75>>
    /\ Len(retrieval.results) = 3

\* The code's ValueError is its configuration error.
IsConfigurationError(exc) == exc.type \in {"ValueError", "ConfigurationError"}

\* C10 (as stated): without a knowledge-base id the call fails with a
\* configuration error; a transport or authentication failure of the endpoint
\* fails with an UpstreamError wrapping that failure; in both cases nothing is
\* returned and the endpoint call is not retried.
C10_UpstreamErrorWraps ==
    /\ (retrieval.status # "none" /\ ~Truthy(kb_id)) =>
          /\ retrieval.status = "raised"
          /\ IsConfigurationError(retrieval.exc)
          /\ retrieval.results = << >>
          /\ agent_calls = 0
    /\ retrieval.endpoint = "raises" =>
          /\ retrieval.status = "raised"
          /\ retrieval.exc.type = "UpstreamError"
          /\ retrieval.exc.wraps = retrieval.endpoint_exc.type
          /\ retrieval.results = << >>
          /\ agent_calls = 1

\* C10 (amended): without a knowledge-base id the call raises its
\* configuration error (a ValueError) before the endpoint is called; a
\* transport or authentication failure of the endpoint is re-raised unchanged,
\* the endpoint's own exception and no wrapper; in both cases nothing is
\* returned and the endpoint is called at most once.
C10_FailureReraisedUnchanged ==
    /\ (retrieval.status # "none" /\ ~Truthy(kb_id)) =>
          /\ retrieval.status = "raised"
          /\ IsConfigurationError(retrieval.exc)
          /\ retrieval.results = << >>
          /\ agent_calls = 0
    /\ retrieval.endpoint = "raises" =>
          /\ retrieval.status = "raised"
          /\ retrieval.exc = retrieval.endpoint_exc
          /\ retrieval.exc.wraps = "none"
          /\ retrieval.results = << >>
          /\ agent_calls = 1

C10_Witness ==
    /\ Truthy(kb_id)
    /\ retrieval.status = "raised"
    /\ retrieval.endpoint = "raises"
    /\ retrieval.endpoint_exc = Exc("ClientError")

\* C1: get_localization_advice never raises to its caller and always ends
\* with a complete LocalizationResponse; on every degraded path (no
\* knowledge-base id, or a fault in enhancement, retrieval, generation or
\* parsing) the response echoes the request's query and target_region, has
\* empty cultural_insights and recommendations, sources_used = 0 and
\* confidence_score = 0.0.
C1_AdviseNeverRaises ==
    /\ escaped = None
    /\ pc # "returned" => ENABLED NextAdvise
    /\ pc = "returned" =>
          /\ response # None
          /\ DOMAIN response[1] = {"query", "target_region", "advice",
                                   "cultural_insights", "recommendations",
                                   "sources_used", "confidence_score"}
          /\ (fault # None \/ ~Truthy(kb_id)) =>
                /\ response[1].query = request[1].query
                /\ response[1].target_region = request[1].target_region
                /\ response[1].cultural_insights = << >>
                /\ response[1].recommendations = << >>
                /\ response[1].sources_used = 0
                /\ response[1].confidence_score = 0

C1_Witness ==
    /\ pc = "returned"
    /\ Truthy(kb_id)
    /\ call_log = <<"retrieve", "generate">>
    /\ fault = Some(Exc("IndexError"))
    /\ response # None

Segment(label, field, present) ==
    IF present THEN Delimiter \o <<label>> \o field[1] ELSE << >>

\* The enhanced query written out segment by segment, an optional field's
\* segment being included when present(field).
SegmentsInOrder(req, present(_)) ==
    req.query
    \o Segment("Brand context: ", req.brand_context, present(req.brand_context))
    \o Segment("Product type: ", req.product_type, present(req.product_type))
    \o Segment("Campaign type: ", req.campaign_type, present(req.campaign_type))
    \o Delimiter \o <<"Target region: ">> \o req.target_region

IsPresent(field) == field # None

IsPresentNonEmpty(field) == field # None /\ field[1] # << >>

\* C3 (as stated): the enhanced query is the segments query, brand, product,
\* campaign, region joined by " | " in that order, an optional field's segment
\* appearing if and only if the field is present (not None).
C3_SegmentIffPresent ==
    enhanced_query # None =>
        enhanced_query[1] = SegmentsInOrder(request[1], IsPresent)

\* C3 (amended): the enhanced query is the segments query, brand, product,
\* campaign, region joined by " | " in that order, the query first and the
\* target region last, an optional field's segment appearing if and only if the
\* field is present and not the empty string.
C3_SegmentIffNonEmpty ==
    enhanced_query # None =>
        LET e == enhanced_query[1]
            req == request[1]
            last == <<"Target region: ">> \o req.target_region
        IN  /\ e = SegmentsInOrder(req, IsPresentNonEmpty)
            /\ SubSeq(e, 1, Len(req.query)) = req.query
            /\ SubSeq(e, Len(e) - Len(last) + 1, Len(e)) = last

C3_Witness ==
    /\ enhanced_query # None
    /\ request[1].brand_context = Some(<< >>)
    /\ request[1].product_type = Some(<<"P">>)
    /\ request[1].campaign_type = None
    /\ enhanced_query[1] = <<"Q", " | ", "Product type: ", "P", " | ",
                            "Target region: ", "Japan">>

\* C4: a configuration with chunk_overlap >= chunk_size (equality included) is
\* rejected when the scraper is constructed, and no chunking is performed with
\* it.
C4_OverlapGeSizeRejected ==
    (scraper # "unbuilt" /\ chunk_overlap >= chunk_size) =>
        scraper = "rejected" /\ cpc = "idle"

ChunkingDone == cpc \in {"chunked", "rechunked", "scraped_and_chunked"}

\* C5: with chunk_overlap < chunk_size, every element chunk_documents returns
\* has text no longer than chunk_size, on every path, the one taken when the
\* splitter fails included.
C5_ChunkWithinSize ==
    (ChunkingDone /\ chunk_overlap < chunk_size) =>
        \A i \in 1..Len(chunked) : Len(chunked[i].page_content) <= chunk_size

SingleShortDocument ==
    /\ Len(documents) = 1
    /\ documents[1].valid
    /\ Len(documents[1].page_content) < chunk_size

\* C6 (as stated): chunking a single document whose text is shorter than
\* chunk_size yields exactly one chunk, whose text and metadata are the
\* document's, unchanged.
C6_ShortDocumentUnchanged ==
    (cpc = "chunked" /\ SingleShortDocument) => chunked = documents

AllWhitespace(text) == \A i \in 1..Len(text) : text[i] \in Whitespace

\* inner is text without a leading and a trailing run of whitespace, and
\* neither begins nor ends with whitespace.
IsTrimOf(inner, text) ==
    /\ inner # << >>
    /\ inner[1] \notin Whitespace
    /\ inner[Len(inner)] \notin Whitespace
    /\ \E i \in 0..Len(text) :
          /\ i + Len(inner) <= Len(text)
          /\ SubSeq(text, i + 1, i + Len(inner)) = inner
          /\ AllWhitespace(SubSeq(text, 1, i))
          /\ AllWhitespace(SubSeq(text, i + Len(inner) + 1, Len(text)))

\* C6 (amended): chunking a single document whose text is shorter than
\* chunk_size yields no chunk when the text is empty or all whitespace, and
\* otherwise exactly one chunk, whose text is the document's text without its
\* leading and trailing whitespace and whose metadata is the document's;
\* chunking that result again returns it unchanged.
C6_ShortDocumentTrimmed ==
    /\ (cpc = "chunked" /\ SingleShortDocument) =>
          IF AllWhitespace(documents[1].page_content)
          THEN chunked = << >>
          ELSE /\ Len(chunked) = 1
               /\ chunked[1].valid
               /\ chunked[1].metadata = documents[1].metadata
               /\ IsTrimOf(chunked[1].page_content, documents[1].page_content)
    /\ (cpc = "rechunked" /\ (documents = << >> \/ SingleShortDocument)) =>
          chunked = documents

C6_Witness ==
    /\ cpc = "chunked"
    /\ chunk_size = 3
    /\ documents = <<Doc(<<"\n", "a">>, "u2")>>
    /\ chunked = <<Doc(<<"a">>, "u2")>>

AllEmptyText(docs) ==
    \A i \in 1..Len(docs) : docs[i].valid /\ docs[i].page_content = << >>

\* C7: chunking zero documents returns the empty sequence, and chunking
\* documents that all have empty text returns no chunk: not an error, and not
\* the input documents; scrape_and_chunk returns the empty sequence when
\* nothing was scraped.
C7_EmptyInputNoChunks ==
    /\ (cpc \in {"chunked", "rechunked"} /\ AllEmptyText(documents)) =>
          chunked = << >> /\ ~SplitRaises(documents)
    /\ (cpc = "scraped_and_chunked" /\ (scraped = << >> \/ AllEmptyText(scraped))) =>
          chunked = << >>

C7_Witness ==
    /\ cpc = "chunked"
    /\ Len(documents) = 2
    /\ AllEmptyText(documents)
    /\ chunked = << >>

\* C8: a failed URL does not abort the batch: scrape_urls returns the document
\* of every URL that was retrieved successfully, and the empty sequence only
\* when no URL was.
C8_FailedUrlKeepsOthers ==
    cpc \in {"scraped", "scraped_and_chunked"} =>
        /\ \A i \in 1..Len(pages) :
              pages[i].ok =>
                 \E k \in 1..Len(scraped) : scraped[k] = Doc(pages[i].text, UrlNames[i])
        /\ scraped = << >> => \A i \in 1..Len(pages) : ~pages[i].ok

\* C9: update_knowledge_base never raises and returns a result with a status
\* and a message: "error" exactly when the scrape-and-chunk step raised,
\* "failed" exactly when that step returned no documents, and "success"
\* otherwise, then carrying the non-empty chunk sequence and its length.
C9_UpdateStatus ==
    cpc = "updated" =>
        /\ escaped = None
        /\ update_result # None
        /\ LET r == update_result[1]
           IN  /\ {"status", "message"} \subseteq DOMAIN r
               /\ r.status \in {"success", "failed", "error"}
               /\ r.status = "error" <=> fault # None
               /\ r.status = "failed" <=> (fault = None /\ chunked = << >>)
               /\ r.status = "success" =>
                     /\ chunked # << >>
                     /\ r.documents = chunked
                     /\ r.documents_scraped = Len(chunked)

C9_Witness ==
    /\ cpc = "updated"
    /\ update_result # None
    /\ update_result[1].status = "success"
    /\ update_result[1].documents_scraped = 2
    /\ \E i \in 1..Len(pages) : AllWhitespace(pages[i].text)

\* Chunk k is cut from document owner[k], at offset at[k] of its text, and has
\* that document's metadata; the chunks of a document come before those of the
\* next document, and within a document in the order of their offsets (a
\* chunk whose leading whitespace was stripped may start where the next one
\* starts).
ChunksFrom(owner, at) ==
    /\ \A k \in 1..Len(chunked) :
          LET parent == documents[owner[k]]
              text == chunked[k].page_content
          IN  /\ chunked[k].metadata = parent.metadata
              /\ at[k] + Len(text) <= Len(parent.page_content)
              /\ SubSeq(parent.page_content, at[k] + 1, at[k] + Len(text)) = text
    /\ \A j, k \in 1..Len(chunked) :
          j < k => \/ owner[j] < owner[k]
                   \/ owner[j] = owner[k] /\ at[j] <= at[k]

\* The number of chunks of the same document that come before chunk k.
IndexWithin(owner, k) == Cardinality({j \in 1..(k - 1) : owner[j] = owner[k]})

MaxOffset ==
    IF documents = << >> THEN 0
    ELSE CHOOSE n \in 0..(MaxTextLen + 1) :
            /\ \A i \in 1..Len(documents) : Len(documents[i].page_content) <= n
            /\ \E i \in 1..Len(documents) : Len(documents[i].page_content) = n

\* The chunks are in document order and text order and carry their parent's
\* metadata.
ChunksInDocumentOrder ==
    \E owner \in [1..Len(chunked) -> 1..Len(documents)] :
        \E at \in [1..Len(chunked) -> 0..MaxOffset] : ChunksFrom(owner, at)

\* C11: the chunks chunk_documents returns are in original order (all chunks of
\* document i before those of document i+1, within a document in text order),
\* each carries its parent document's metadata unchanged, and each carries its
\* sequence index within its source document.
C11_ChunksOrderedWithIndex ==
    (ChunkingDone /\ ~SplitRaises(documents)) =>
        \E owner \in [1..Len(chunked) -> 1..Len(documents)] :
            \E at \in [1..Len(chunked) -> 0..MaxOffset] :
                /\ ChunksFrom(owner, at)
                /\ \A k \in 1..Len(chunked) :
                      /\ "sequence_index" \in DOMAIN chunked[k]
                      /\ chunked[k].sequence_index = IndexWithin(owner, k)

CallsOf(endpoint) == {i \in 1..Len(call_log) : call_log[i] = endpoint}

\* C12: within one get_localization_advice call the retrieval endpoint is
\* called at most once and strictly before the generation endpoint; the
\* generation endpoint is called at most once, and only after retrieval has
\* returned (never when retrieval raised); with no knowledge-base id neither
\* endpoint is called.
C12_RetrieveThenGenerateOnce ==
    /\ Cardinality(CallsOf("retrieve")) <= 1
    /\ Cardinality(CallsOf("generate")) <= 1
    /\ Cardinality(CallsOf("retrieve")) = agent_calls
    /\ \A g \in CallsOf("generate") :
          /\ \E r \in CallsOf("retrieve") : r < g
          /\ retrieval.status = "returned"
    /\ retrieval.status = "raised" => CallsOf("generate") = {}
    /\ ~Truthy(kb_id) => call_log = << >> /\ agent_calls = 0
    /\ (pc = "returned" /\ Truthy(kb_id) /\ fault = None) =>
          call_log = <<"retrieve", "generate">>

C12_Witness ==
    /\ pc = "returned"
    /\ Truthy(kb_id)
    /\ fault = None
    /\ retrieval.status = "returned"
    /\ call_log = <<"retrieve", "generate">>

\* The call went through retrieval, generation and parsing without a fault.
AdviseSucceeded ==
    /\ pc = "returned"
    /\ Truthy(kb_id)
    /\ fault = None

UpperOf(c) ==
    CASE c = "c" -> "C" [] c = "u" -> "U" [] c = "l" -> "L" [] c = "t" -> "T"
      [] c = "r" -> "R" [] c = "a" -> "A" [] c = "e" -> "E" [] c = "o" -> "O"
      [] c = "m" -> "M" [] c = "n" -> "N" [] c = "d" -> "D" [] OTHER -> c

\* keyword occurs in text, each of its letters in either case.
ContainsIgnoringCase(text, keyword) ==
    \E i \in 0..(Len(text) - Len(keyword)) :
        \A j \in 1..Len(keyword) :
            text[i + j] \in {keyword[j], UpperOf(keyword[j])}

\* C13: on a successful get_localization_advice call, cultural_insights is
\* exactly the one fixed flag string if the generated text contains
\* "cultural" in any letter case and empty otherwise, recommendations is
\* exactly the one fixed flag string if it contains "recommend" in any letter
\* case and empty otherwise, and advice is the generated text unchanged.
C13_KeywordFlags ==
    AdviseSucceeded =>
        LET text == generation.text[1]
            resp == response[1]
        IN  /\ resp.advice = text
            /\ resp.cultural_insights =
                  (IF ContainsIgnoringCase(text, KwCultural)
                   THEN <<"Cultural considerations identified in response">>
                   ELSE << >>)
            /\ resp.recommendations =
                  (IF ContainsIgnoringCase(text, KwRecommend)
                   THEN <<"Specific recommendations provided">>
                   ELSE << >>)

C13_Witness ==
    /\ AdviseSucceeded
    /\ generation.text = Some(TextCulturalCap)
    /\ response[1].advice = TextCulturalCap
    /\ Len(response[1].cultural_insights) = 1
    /\ response[1].recommendations = << >>

\* The passages of the endpoint's reply that score at least the threshold.
Survivors(reply, threshold) ==
    {i \in 1..Len(reply) : ScoreOf(reply[i]) >= threshold}

====
